---------------------------- MODULE Spec2Model ----------------------------
(***************************************************************************)
(* A model of src/src/main.rs: the Type and Expr trees, replace_type,      *)
(* infer and eval, driven the way the tests drive them: an ast is built    *)
(* by wrapping the previous ast in a new node, then handed to infer and    *)
(* to eval under a type context and a value context.                       *)
(***************************************************************************)
EXTENDS Integers, Sequences, FiniteSets

VARIABLES
    ast,              \* the Expr tree under construction / under test
    type_context,     \* TypeContext handed to infer
    value_context,    \* ValueContext handed to eval
    infered_type,     \* outcome of infer(ast, type_context), NotRun before
    evaluated_value,  \* outcome of eval(ast, value_context), NotRun before
    type_,            \* replace_type's first argument
    from,             \* replace_type's second argument
    to,               \* replace_type's third argument
    replaced          \* outcome of replace_type(type_, from, to), NotRun before

vars == <<ast, type_context, value_context, infered_type, evaluated_value,
          type_, from, to, replaced>>

---------------------------------------------------------------------------
(* Bounds of the model.                                                    *)

\* Depth of the deepest ast built over the whole grammar.
MaxDepth == 4
\* Depth of the deepest ast built in the polymorphic slice of the grammar.
PolyDepth == 8
\* Depth of the deepest ast built in the self-applying slice of the grammar.
LoopDepth == 4
\* Number of nodes of the largest type replace_type is applied to.
TypeSize == 4
\* Number of nodes of the largest type replace_type substitutes.
ToSize == 1
\* Number of nested eval calls the stack holds.
StackDepth == 24

---------------------------------------------------------------------------
(* enum Type                                                               *)

TInt == [tag |-> "Int"]
TStr == [tag |-> "Str"]
TVar(var) == [tag |-> "Var", name |-> var]
TClosure(param, body) == [tag |-> "Closure", param |-> param, body |-> body]
TForall(param, body) == [tag |-> "Forall", param |-> param, body |-> body]

(* enum Expr                                                               *)

EInt(int) == [tag |-> "Int", int |-> int]
EVar(name) == [tag |-> "Var", name |-> name]
EAbs(param, param_type, body) ==
    [tag |-> "Abs", param |-> param, param_type |-> param_type, body |-> body]
ETypeAbs(param, body) == [tag |-> "TypeAbs", param |-> param, body |-> body]
ETypeApp(arg, abs) == [tag |-> "TypeApp", arg |-> arg, abs |-> abs]
EApp(arg, abs) == [tag |-> "App", arg |-> arg, abs |-> abs]

(* enum Value                                                              *)

VClosure(param, body, context) ==
    [tag |-> "Closure", param |-> param, body |-> body, context |-> context]
VForall(body, context) == [tag |-> "Forall", body |-> body, context |-> context]
VInt(int) == [tag |-> "Int", int |-> int]
VNative(native) == [tag |-> "Native", native |-> native]

(* im::hashmap::HashMap: a persistent map, here a function on its keys.    *)

EmptyContext == << >>

update(context, key, value) ==
    [k \in (DOMAIN context) \cup {key} |-> IF k = key THEN value ELSE context[k]]

(* Outcomes: a returned value, or the panic that unwound the call.         *)

NotRun == [run |-> FALSE]
Returned(type) == [run |-> TRUE, ok |-> TRUE, type |-> type]
TypePanic(kind, what) == [run |-> TRUE, ok |-> FALSE, panic |-> kind, what |-> what]

Value(value, log) == [run |-> TRUE, ok |-> TRUE, value |-> value, log |-> log]
Panic(kind, what, log) ==
    [run |-> TRUE, ok |-> FALSE, panic |-> kind, what |-> what, log |-> log]

---------------------------------------------------------------------------
(* fn replace_type(type_: &Type, from: String, to: Type) -> Type           *)

RECURSIVE replace_type(_, _, _)

replace_Closure(t, f, u) ==
    TClosure(replace_type(t.param, f, u), replace_type(t.body, f, u))

\* Mutant: the shadowing binder is not honoured.
replace_Forall_no_shadow(t, f, u) ==
    TForall(t.param, replace_type(t.body, f, u))

replace_Forall(t, f, u) ==
    IF t.param = f
    THEN TForall(t.param, t.body)
    ELSE TForall(t.param, replace_type(t.body, f, u))

replace_Var(t, f, u) ==
    IF t.name = f THEN u ELSE t

replace_type(t, f, u) ==
    CASE t.tag = "Closure" -> replace_Closure(t, f, u)
      [] t.tag = "Forall" -> replace_Forall(t, f, u)
      [] t.tag = "Var" -> replace_Var(t, f, u)
      [] t.tag = "Int" -> TInt
      [] t.tag = "Str" -> TStr

---------------------------------------------------------------------------
(* fn infer(expr: Expr, context: TypeContext) -> Type                      *)

RECURSIVE infer(_, _)

infer_Var(expr, context) ==
    IF expr.name \in DOMAIN context
    THEN Returned(context[expr.name])
    ELSE TypePanic("type error: unbound variable", expr.name)

infer_Abs(expr, context) ==
    LET body == infer(expr.body, update(context, expr.param, expr.param_type))
    IN  IF body.ok THEN Returned(TClosure(expr.param_type, body.type)) ELSE body

\* Mutant: the parameter type is not compared with the argument's type.
infer_App_unchecked(expr, context) ==
    LET arg == infer(expr.arg, context)
        abs == infer(expr.abs, context)
    IN  IF ~arg.ok THEN arg
        ELSE IF ~abs.ok THEN abs
        ELSE IF abs.type.tag = "Closure"
        THEN Returned(abs.type.body)
        ELSE TypePanic("cannot be used as a closure", abs.type)

infer_App(expr, context) ==
    LET arg == infer(expr.arg, context)
        abs == infer(expr.abs, context)
    IN  IF ~arg.ok THEN arg
        ELSE IF ~abs.ok THEN abs
        ELSE IF abs.type.tag = "Closure"
        THEN IF abs.type.param = arg.type
             THEN Returned(abs.type.body)
             ELSE TypePanic("expecting type", <<abs.type.param, arg.type>>)
        ELSE TypePanic("cannot be used as a closure", abs.type)

infer_TypeAbs(expr, context) ==
    LET body == infer(expr.body, context)
    IN  IF body.ok THEN Returned(TForall(expr.param, body.type)) ELSE body

\* Mutant: the Forall's body is returned as it is, its variable not replaced.
infer_TypeApp_no_subst(expr, context) ==
    LET abs == infer(expr.abs, context)
    IN  IF ~abs.ok THEN abs
        ELSE IF abs.type.tag = "Forall"
        THEN Returned(abs.type.body)
        ELSE TypePanic("cannot apply type", <<expr.abs, abs.type>>)

infer_TypeApp(expr, context) ==
    LET abs == infer(expr.abs, context)
    IN  IF ~abs.ok THEN abs
        ELSE IF abs.type.tag = "Forall"
        THEN Returned(replace_type(abs.type.body, abs.type.param, expr.arg))
        ELSE TypePanic("cannot apply type", <<expr.abs, abs.type>>)

infer(expr, context) ==
    CASE expr.tag = "Var" -> infer_Var(expr, context)
      [] expr.tag = "Abs" -> infer_Abs(expr, context)
      [] expr.tag = "App" -> infer_App(expr, context)
      [] expr.tag = "TypeAbs" -> infer_TypeAbs(expr, context)
      [] expr.tag = "TypeApp" -> infer_TypeApp(expr, context)
      [] expr.tag = "Int" -> Returned(TInt)

\* The calls infer(expr, context) is made of: each subterm with the context
\* infer hands down to it.
RECURSIVE infer_calls(_, _)
infer_calls(expr, context) ==
    {<<expr, context>>} \cup
    CASE expr.tag = "Abs" ->
           infer_calls(expr.body, update(context, expr.param, expr.param_type))
      [] expr.tag = "App" ->
           infer_calls(expr.arg, context) \cup infer_calls(expr.abs, context)
      [] expr.tag = "TypeAbs" -> infer_calls(expr.body, context)
      [] expr.tag = "TypeApp" -> infer_calls(expr.abs, context)
      [] OTHER -> {}

---------------------------------------------------------------------------
(* Value::Native(fn(Box<Value>) -> Box<Value>): the host's primitives.     *)
(* print hands an Int back and panics on any other value; konst answers    *)
(* Int(0) to every value.  Each call is appended to the log.               *)

Natives == {"print", "konst"}

native_call(native, arg, log) ==
    LET entry == [native |-> native, arg |-> arg]
    IN  CASE native = "print" ->
               IF arg.tag = "Int"
               THEN Value(arg, Append(log, entry))
               ELSE Panic("primitive misuse", arg, Append(log, entry))
          [] native = "konst" -> Value(VInt(0), Append(log, entry))

---------------------------------------------------------------------------
(* fn eval(expr: Expr, context: ValueContext) -> Value                     *)
(*                                                                         *)
(* active is the chain of calls on the stack, each an <<expr, context>>.   *)
(* eval is deterministic, so a call made while an equal call is still on   *)
(* the stack never returns: the recursion goes on until the stack is       *)
(* exhausted.  stack counts the frames still available.                    *)

RECURSIVE eval_rec(_, _, _, _)

eval_Var(expr, context) ==
    IF expr.name \in DOMAIN context
    THEN Value(context[expr.name], << >>)
    ELSE Panic("unbound variable", expr.name, << >>)

eval_Abs(expr, context) ==
    Value(VClosure(expr.param, expr.body, context), << >>)

\* Mutant: the body runs in the caller's context (dynamic scoping).
eval_App_dynamic(expr, context, active, stack) ==
    LET arg == eval_rec(expr.arg, context, active, stack)
    IN  IF ~arg.ok THEN arg
        ELSE
        LET abs == eval_rec(expr.abs, context, active, stack)
            log == arg.log \o abs.log
        IN  IF ~abs.ok THEN [abs EXCEPT !.log = log]
            ELSE CASE abs.value.tag = "Closure" ->
                        LET res == eval_rec(abs.value.body,
                                            update(context,
                                                   abs.value.param, arg.value),
                                            active, stack)
                        IN  [res EXCEPT !.log = log \o res.log]
                   [] abs.value.tag = "Native" ->
                        native_call(abs.value.native, arg.value, log)
                   [] abs.value.tag = "Int" ->
                        Panic("explicit panic", abs.value, log)
                   [] abs.value.tag = "Forall" ->
                        Panic("explicit panic", abs.value, log)

\* Mutant: abs is evaluated before arg.
eval_App_abs_first(expr, context, active, stack) ==
    LET abs == eval_rec(expr.abs, context, active, stack)
    IN  IF ~abs.ok THEN abs
        ELSE
        LET arg == eval_rec(expr.arg, context, active, stack)
            log == abs.log \o arg.log
        IN  IF ~arg.ok THEN [arg EXCEPT !.log = log]
            ELSE CASE abs.value.tag = "Closure" ->
                        LET res == eval_rec(abs.value.body,
                                            update(abs.value.context,
                                                   abs.value.param, arg.value),
                                            active, stack)
                        IN  [res EXCEPT !.log = log \o res.log]
                   [] abs.value.tag = "Native" ->
                        native_call(abs.value.native, arg.value, log)
                   [] abs.value.tag = "Int" ->
                        Panic("explicit panic", abs.value, log)
                   [] abs.value.tag = "Forall" ->
                        Panic("explicit panic", abs.value, log)

\* Mutant: applying an Int hands the Int back instead of panicking.
eval_App_int_callable(expr, context, active, stack) ==
    LET arg == eval_rec(expr.arg, context, active, stack)
    IN  IF ~arg.ok THEN arg
        ELSE
        LET abs == eval_rec(expr.abs, context, active, stack)
            log == arg.log \o abs.log
        IN  IF ~abs.ok THEN [abs EXCEPT !.log = log]
            ELSE CASE abs.value.tag = "Closure" ->
                        LET res == eval_rec(abs.value.body,
                                            update(abs.value.context,
                                                   abs.value.param, arg.value),
                                            active, stack)
                        IN  [res EXCEPT !.log = log \o res.log]
                   [] abs.value.tag = "Native" ->
                        native_call(abs.value.native, arg.value, log)
                   [] abs.value.tag = "Int" -> Value(abs.value, log)
                   [] abs.value.tag = "Forall" ->
                        Panic("explicit panic", abs.value, log)

eval_App(expr, context, active, stack) ==
    LET arg == eval_rec(expr.arg, context, active, stack)
    IN  IF ~arg.ok THEN arg
        ELSE
        LET abs == eval_rec(expr.abs, context, active, stack)
            log == arg.log \o abs.log
        IN  IF ~abs.ok THEN [abs EXCEPT !.log = log]
            ELSE CASE abs.value.tag = "Closure" ->
                        LET res == eval_rec(abs.value.body,
                                            update(abs.value.context,
                                                   abs.value.param, arg.value),
                                            active, stack)
                        IN  [res EXCEPT !.log = log \o res.log]
                   [] abs.value.tag = "Native" ->
                        native_call(abs.value.native, arg.value, log)
                   [] abs.value.tag = "Int" ->
                        Panic("explicit panic", abs.value, log)
                   [] abs.value.tag = "Forall" ->
                        Panic("explicit panic", abs.value, log)

eval_TypeAbs(expr, context) ==
    Value(VForall(expr.body, context), << >>)

\* Mutant: the type argument is consulted: Str instantiates nothing.
eval_TypeApp_reified(expr, context, active, stack) ==
    LET abs == eval_rec(expr.abs, context, active, stack)
    IN  IF ~abs.ok THEN abs
        ELSE IF abs.value.tag = "Forall" /\ expr.arg # TStr
        THEN LET res == eval_rec(abs.value.body, abs.value.context, active, stack)
             IN  [res EXCEPT !.log = abs.log \o res.log]
        ELSE Panic("invalid type application", abs.value, abs.log)

\* Mutant: the TypeApp itself, not the Forall's body, is evaluated again.
eval_TypeApp_again(expr, context, active, stack) ==
    LET abs == eval_rec(expr.abs, context, active, stack)
    IN  IF ~abs.ok THEN abs
        ELSE IF abs.value.tag = "Forall"
        THEN LET res == eval_rec(expr, abs.value.context, active, stack)
             IN  [res EXCEPT !.log = abs.log \o res.log]
        ELSE Panic("invalid type application", abs.value, abs.log)

eval_TypeApp(expr, context, active, stack) ==
    LET abs == eval_rec(expr.abs, context, active, stack)
    IN  IF ~abs.ok THEN abs
        ELSE IF abs.value.tag = "Forall"
        THEN LET res == eval_rec(abs.value.body, abs.value.context, active, stack)
             IN  [res EXCEPT !.log = abs.log \o res.log]
        ELSE Panic("invalid type application", abs.value, abs.log)

eval_rec(expr, context, active, stack) ==
    LET frame == <<expr, context>>
        calls == Append(active, frame)
    IN  IF \E i \in 1..Len(active) : active[i] = frame
        THEN Panic("infinite recursion", frame, << >>)
        ELSE IF stack = 0
        THEN Panic("stack exhausted", frame, << >>)
        ELSE CASE expr.tag = "Var" -> eval_Var(expr, context)
               [] expr.tag = "Abs" -> eval_Abs(expr, context)
               [] expr.tag = "App" -> eval_App(expr, context, calls, stack - 1)
               [] expr.tag = "TypeAbs" -> eval_TypeAbs(expr, context)
               [] expr.tag = "TypeApp" -> eval_TypeApp(expr, context, calls, stack - 1)
               [] expr.tag = "Int" -> Value(VInt(expr.int), << >>)

eval(expr, context) == eval_rec(expr, context, << >>, StackDepth)

---------------------------------------------------------------------------
(* The inputs the asts are built from.                                     *)

\* Number of nodes on the longest path of an Expr tree.
RECURSIVE Depth(_)
Depth(expr) ==
    CASE expr.tag \in {"Int", "Var"} -> 1
      [] expr.tag \in {"Abs", "TypeAbs"} -> 1 + Depth(expr.body)
      [] expr.tag = "TypeApp" -> 1 + Depth(expr.abs)
      [] expr.tag = "App" ->
           1 + (IF Depth(expr.arg) > Depth(expr.abs)
                THEN Depth(expr.arg) ELSE Depth(expr.abs))

TypeVarNames == {"a", "b"}

\* The types of exactly n nodes over TypeVarNames.
RECURSIVE TypesOfSize(_)
TypesOfSize(n) ==
    IF n = 1
    THEN {TInt, TStr} \cup {TVar(v) : v \in TypeVarNames}
    ELSE {TForall(v, b) : v \in TypeVarNames, b \in TypesOfSize(n - 1)}
         \cup UNION {{TClosure(p, b) : p \in TypesOfSize(k),
                                       b \in TypesOfSize(n - 1 - k)}
                     : k \in 1..(n - 2)}

TypesUpTo(n) == UNION {TypesOfSize(k) : k \in 1..n}

\* tests::it_infers_polymorphic_identity_function's ast
PolyIdentity == ETypeAbs("a", EAbs("x", TVar("a"), EVar("x")))

Leaves == {EInt(4), EVar("x")}
Params == {"x"}
Annots == {TInt, TStr, TVar("a")}
TypeArgs == {TInt, TStr}
\* a is bound in no context: a term variable that shares its name with a type
\* variable.
Args == {EInt(4), EVar("a"), EApp(EInt(1), EVar("konst"))}
Funs == {EVar("print"), EVar("f"), EVar("g"),
         EAbs("x", TForall("b", TInt), EVar("x"))}

\* A host's seed: the primitives and globals bound in both contexts.  f and g
\* are the closures eval returns for Abs{x: Int}.y under {y: 2} and under {}.
SeedNames == {"y", "f", "g", "print", "konst"}

SeedTypes ==
    [k \in SeedNames |-> IF k = "y" THEN TInt ELSE TClosure(TInt, TInt)]

SeedValues ==
    [k \in SeedNames |->
        CASE k = "y" -> VInt(1)
          [] k = "f" -> VClosure("x", EVar("y"), [n \in {"y"} |-> VInt(2)])
          [] k = "g" -> VClosure("x", EVar("y"), EmptyContext)
          [] k = "print" -> VNative("print")
          [] k = "konst" -> VNative("konst")]

\* A seed without Native values: p and q hold suspended generic values.
LoopValues ==
    [k \in {"p"} |->
        VForall(ETypeApp(TInt, EVar("q")),
                [n \in {"q"} |-> VForall(EVar("y"), [m \in {"y"} |-> VInt(3)])])]

LoopTypes == [k \in {"p"} |-> TForall("a", TInt)]

---------------------------------------------------------------------------
(* The operations.                                                         *)

NoReplace ==
    /\ type_ = TInt /\ from = "a" /\ to = TInt /\ replaced = NotRun

Wrap(expr) ==
    /\ ast' = expr
    /\ infered_type' = NotRun
    /\ evaluated_value' = NotRun
    /\ UNCHANGED <<type_context, value_context, type_, from, to, replaced>>

\* let ast = Expr::Abs { param, param_type, body: Box::new(ast) }
MkAbs(param, param_type) == Wrap(EAbs(param, param_type, ast))

\* let ast = Expr::TypeAbs { param, body: Box::new(ast) }
MkTypeAbs(param) == Wrap(ETypeAbs(param, ast))

\* let ast = Expr::TypeApp { arg, abs: Box::new(ast) }
MkTypeApp(arg) == Wrap(ETypeApp(arg, ast))

\* let ast = Expr::App { arg, abs: Box::new(ast) }
MkApp(arg) == Wrap(EApp(arg, ast))

\* let ast = Expr::App { arg: Box::new(ast), abs }
MkArg(abs) == Wrap(EApp(ast, abs))

\* let infered_type = infer(ast.clone(), context)
Infer ==
    /\ infered_type = NotRun
    /\ infered_type' = infer(ast, type_context)
    /\ UNCHANGED <<ast, type_context, value_context, evaluated_value,
                   type_, from, to, replaced>>

\* let evaluated_value = eval(ast.clone(), context)
Eval ==
    /\ evaluated_value = NotRun
    /\ evaluated_value' = eval(ast, value_context)
    /\ UNCHANGED <<ast, type_context, value_context, infered_type,
                   type_, from, to, replaced>>

\* replace_type(&type_, from, to)
Replace ==
    /\ replaced = NotRun
    /\ replaced' = Returned(replace_type(type_, from, to))
    /\ UNCHANGED <<ast, type_context, value_context, infered_type,
                   evaluated_value, type_, from, to>>

---------------------------------------------------------------------------
(* Spec: asts over the whole grammar, under the seeded contexts.           *)

Init ==
    /\ ast \in Leaves
    /\ type_context = SeedTypes
    /\ value_context = SeedValues
    /\ infered_type = NotRun
    /\ evaluated_value = NotRun
    /\ NoReplace

Build ==
    /\ Depth(ast) < MaxDepth
    /\ \/ \E p \in Params, t \in Annots : MkAbs(p, t)
       \/ \E v \in TypeVarNames : MkTypeAbs(v)
       \/ \E t \in TypeArgs : MkTypeApp(t)
       \/ \E e \in Args \cup {ast} : MkApp(e)
       \/ \E e \in Funs : MkArg(e)

Next == Build \/ Infer \/ Eval

Spec == Init /\ [][Next]_vars

(* SpecReplace: replace_type applied to every type of the bounded sizes.   *)

InitReplace ==
    /\ ast = EInt(4)
    /\ type_context = EmptyContext
    /\ value_context = EmptyContext
    /\ infered_type = NotRun
    /\ evaluated_value = NotRun
    /\ type_ \in TypesUpTo(TypeSize)
    /\ from \in TypeVarNames
    /\ to \in TypesUpTo(ToSize)
    /\ replaced = NotRun

NextReplace == Replace

SpecReplace == InitReplace /\ [][NextReplace]_vars

(* SpecPoly: closed asts of the polymorphic slice (one term variable, one  *)
(* type variable, Int and Int -> Int as type arguments), empty contexts.   *)

PolyTypeArgs == {TInt, TClosure(TInt, TInt)}

InitPoly ==
    /\ ast = EVar("x")
    /\ type_context = EmptyContext
    /\ value_context = EmptyContext
    /\ infered_type = NotRun
    /\ evaluated_value = NotRun
    /\ NoReplace

BuildPoly ==
    /\ Depth(ast) < PolyDepth
    /\ \/ MkAbs("x", TVar("a"))
       \/ MkTypeAbs("a")
       \/ \E t \in PolyTypeArgs : MkTypeApp(t)
       \/ MkApp(EInt(4))

NextPoly == BuildPoly \/ Infer \/ Eval

SpecPoly == InitPoly /\ [][NextPoly]_vars

(* SpecLoop: asts that may apply a term to itself, under value contexts    *)
(* that hold no Native value.                                              *)

InitLoop ==
    /\ ast \in {EInt(4), EVar("x"), EVar("p")}
    /\ \/ type_context = EmptyContext /\ value_context = EmptyContext
       \/ type_context = LoopTypes /\ value_context = LoopValues
    /\ infered_type = NotRun
    /\ evaluated_value = NotRun
    /\ NoReplace

BuildLoop ==
    /\ Depth(ast) < LoopDepth
    /\ \/ MkAbs("x", TInt)
       \/ MkTypeAbs("a")
       \/ MkTypeApp(TInt)
       \/ \E e \in {EInt(4), ast} : MkApp(e)

NextLoop == BuildLoop \/ Infer \/ Eval

SpecLoop == InitLoop /\ [][NextLoop]_vars

---------------------------------------------------------------------------
(* The properties.                                                         *)

\* Both infer and eval have been run on the ast.
BothRun == infered_type.run /\ evaluated_value.run

\* eval's two failures on a value of the wrong shape.
NotCallable(outcome) == ~outcome.ok /\ outcome.panic = "explicit panic"
InvalidTypeApplication(outcome) ==
    ~outcome.ok /\ outcome.panic = "invalid type application"

\* C1: whenever infer returns a type for a closed ast, eval of that ast under
\* the empty context never fails with "value is not callable" nor with
\* "invalid type application".
C1_Soundness ==
    (BothRun /\ infered_type.ok) =>
        /\ ~NotCallable(evaluated_value)
        /\ ~InvalidTypeApplication(evaluated_value)

\* The value has the shape the type describes.
ShapeOf(type, value) ==
    CASE type.tag = "Int" -> value.tag = "Int"
      [] type.tag = "Closure" -> value.tag = "Closure"
      [] type.tag = "Forall" -> value.tag = "Forall"
      [] OTHER -> TRUE

\* C10: whenever infer returns Int, a Closure type or a Forall type for a
\* closed ast and eval returns a value, the value is an Int, a Closure or a
\* Forall respectively.
C10_Preservation ==
    (BothRun /\ infered_type.ok /\ evaluated_value.ok) =>
        ShapeOf(infered_type.type, evaluated_value.value)

\* type_ with every occurrence of Var(name) that lies under no Forall binding
\* name replaced by type: the occurrences are found by carrying the set of
\* binders passed on the way down.
RECURSIVE SubstFree(_, _, _, _)
SubstFree(type, name, by, bound) ==
    CASE type.tag = "Var" ->
           IF type.name = name /\ name \notin bound THEN by ELSE type
      [] type.tag = "Closure" ->
           TClosure(SubstFree(type.param, name, by, bound),
                    SubstFree(type.body, name, by, bound))
      [] type.tag = "Forall" ->
           TForall(type.param,
                   SubstFree(type.body, name, by, bound \cup {type.param}))
      [] OTHER -> type

\* C2: replace_type(type_, from, to) is type_ with every free occurrence of
\* Var(from) replaced by to; Var(from) becomes to, any other Var stays, a
\* Forall binding from is returned unchanged, Int and Str are unchanged.
C2_Substitution ==
    replaced.run =>
        /\ replaced.type = SubstFree(type_, from, to, {})
        /\ type_ = TVar(from) => replaced.type = to
        /\ (type_.tag = "Var" /\ type_.name # from) => replaced.type = type_
        /\ (type_.tag = "Forall" /\ type_.param = from) => replaced.type = type_
        /\ type_ \in {TInt, TStr} => replaced.type = type_

\* A type with a free and a shadowed occurrence of from has been substituted.
C2_Witness ==
    /\ replaced.run
    /\ type_ = TClosure(TVar(from), TForall(from, TVar(from)))
    /\ to # TVar(from)
    /\ replaced.type = TClosure(to, TForall(from, TVar(from)))

---------------------------------------------------------------------------
(* Properties of eval.                                                     *)

\* An outcome without its log: the value returned, or the panic raised.
Result(outcome) ==
    IF outcome.ok
    THEN <<"value", outcome.value>>
    ELSE <<"panic", outcome.panic, outcome.what>>

\* The sub-evaluations of the ast under test, as eval makes them.
ArgOutcome == eval(ast.arg, value_context)
AbsOutcome == eval(ast.abs, value_context)

\* C3: eval of an Abs under the context C returns the closure over C; an App
\* whose abs evaluates to a closure evaluates the closure's body in the
\* closure's own context extended with param -> argument, so a free variable
\* of the body resolves to its value in the closure's context and is unbound
\* when only the caller's context binds it.
C3_LexicalScoping ==
    evaluated_value.run =>
        /\ ast.tag = "Abs" =>
             evaluated_value =
                 Value(VClosure(ast.param, ast.body, value_context), << >>)
        /\ (/\ ast.tag = "App"
            /\ ArgOutcome.ok
            /\ AbsOutcome.ok
            /\ AbsOutcome.value.tag = "Closure") =>
             LET closure == AbsOutcome.value
                 inside == update(closure.context, closure.param, ArgOutcome.value)
                 body == closure.body
             IN  /\ Result(evaluated_value) = Result(eval(body, inside))
                 /\ (body.tag = "Var" /\ body.name # closure.param) =>
                      IF body.name \in DOMAIN closure.context
                      THEN /\ evaluated_value.ok
                           /\ evaluated_value.value = closure.context[body.name]
                      ELSE /\ ~evaluated_value.ok
                           /\ evaluated_value.panic = "unbound variable"
                           /\ evaluated_value.what = body.name

\* A closure was applied where the caller binds the body's free variable to
\* another value than the closure's context does, and the closure's won.
C3_Witness ==
    /\ evaluated_value.run
    /\ ast.tag = "App"
    /\ ArgOutcome.ok
    /\ AbsOutcome.ok
    /\ AbsOutcome.value.tag = "Closure"
    /\ LET closure == AbsOutcome.value
       IN  /\ closure.body.tag = "Var"
           /\ closure.body.name # closure.param
           /\ closure.body.name \in DOMAIN closure.context
           /\ closure.body.name \in DOMAIN value_context
           /\ closure.context[closure.body.name] # value_context[closure.body.name]
           /\ evaluated_value.ok
           /\ evaluated_value.value = closure.context[closure.body.name]

\* The type arguments a generic value is applied at.
ErasedTypes == {TInt, TStr, TVar("a"), TClosure(TInt, TInt)}

\* C4: eval of TypeApp{abs: ast, arg: A} has the same outcome for every type
\* A; when ast evaluates to a Forall value the outcome is that of its body
\* under its context; the generic identity type-applied at any A and applied
\* to the ast returns the ast's value unchanged.
C4_Erasure ==
    evaluated_value.run =>
        \A A \in ErasedTypes :
            /\ eval(ETypeApp(A, ast), value_context)
                   = eval(ETypeApp(TInt, ast), value_context)
            /\ (evaluated_value.ok /\ evaluated_value.value.tag = "Forall") =>
                 Result(eval(ETypeApp(A, ast), value_context))
                     = Result(eval(evaluated_value.value.body,
                                   evaluated_value.value.context))
            /\ ast.tag = "TypeApp" =>
                 evaluated_value = eval(ETypeApp(A, ast.abs), value_context)
            /\ evaluated_value.ok =>
                 eval(EApp(ast, ETypeApp(A, PolyIdentity)), value_context)
                     = evaluated_value

\* A generic value was type-applied at Str and returned its body's value.
C4_Witness ==
    /\ evaluated_value.run
    /\ ast.tag = "TypeApp"
    /\ ast.arg = TStr
    /\ AbsOutcome.ok
    /\ AbsOutcome.value.tag = "Forall"
    /\ evaluated_value.ok
    /\ evaluated_value.value.tag = "Closure"

\* The log begins with the given entries.
StartsWith(log, entries) ==
    /\ Len(entries) <= Len(log)
    /\ SubSeq(log, 1, Len(entries)) = entries

\* C8: in eval of an App the arg is evaluated first and the abs next, both
\* under the caller's context: a failure of arg is the failure of the App and
\* nothing of abs has happened by then, and the Native calls of arg precede
\* those of abs; infer of an App likewise fails with arg's failure.
C8_ArgFirst ==
    /\ (evaluated_value.run /\ ast.tag = "App") =>
         IF ~ArgOutcome.ok
         THEN evaluated_value = ArgOutcome
         ELSE IF ~AbsOutcome.ok
         THEN evaluated_value =
                  [AbsOutcome EXCEPT !.log = ArgOutcome.log \o AbsOutcome.log]
         ELSE StartsWith(evaluated_value.log, ArgOutcome.log \o AbsOutcome.log)
    /\ (infered_type.run /\ ast.tag = "App") =>
         LET arg == infer(ast.arg, type_context)
         IN  ~arg.ok => infered_type = arg

\* Both subterms of an App fail, each on its own unbound variable, and infer
\* and eval both report the arg's.
C8_Witness ==
    /\ BothRun
    /\ ast.tag = "App"
    /\ ~ArgOutcome.ok
    /\ ~AbsOutcome.ok
    /\ Result(ArgOutcome) # Result(AbsOutcome)
    /\ ~infer(ast.abs, type_context).ok
    /\ evaluated_value = ArgOutcome
    /\ infered_type = infer(ast.arg, type_context)
    /\ infered_type # infer(ast.abs, type_context)

\* The failures the claim is about.
ShapeFailure(outcome) == NotCallable(outcome) \/ InvalidTypeApplication(outcome)

\* C9: an App whose abs evaluates to an Int or a Forall fails; one whose abs
\* evaluates to Native(f) returns f's result on the argument value; a TypeApp
\* whose abs evaluates to an Int, a Closure or a Native fails; and such a
\* failure of a sub-evaluation is the failure of the whole evaluation.
C9_Failures ==
    evaluated_value.run =>
        /\ (ast.tag = "App" /\ ArgOutcome.ok /\ AbsOutcome.ok) =>
             /\ AbsOutcome.value.tag \in {"Int", "Forall"} =>
                  NotCallable(evaluated_value)
             /\ AbsOutcome.value.tag = "Native" =>
                  evaluated_value =
                      native_call(AbsOutcome.value.native, ArgOutcome.value,
                                  ArgOutcome.log \o AbsOutcome.log)
             /\ AbsOutcome.value.tag = "Closure" =>
                  LET body == eval(AbsOutcome.value.body,
                                   update(AbsOutcome.value.context,
                                          AbsOutcome.value.param, ArgOutcome.value))
                  IN  ShapeFailure(body) => Result(evaluated_value) = Result(body)
        /\ (ast.tag = "TypeApp" /\ AbsOutcome.ok) =>
             /\ AbsOutcome.value.tag \in {"Int", "Closure", "Native"} =>
                  InvalidTypeApplication(evaluated_value)
             /\ AbsOutcome.value.tag = "Forall" =>
                  LET body == eval(AbsOutcome.value.body, AbsOutcome.value.context)
                  IN  ShapeFailure(body) => Result(evaluated_value) = Result(body)
        /\ (ast.tag = "App" /\ ShapeFailure(ArgOutcome)) =>
             Result(evaluated_value) = Result(ArgOutcome)
        /\ (/\ ast.tag \in {"App", "TypeApp"}
            /\ ast.tag = "App" => ArgOutcome.ok
            /\ ShapeFailure(AbsOutcome)) =>
             Result(evaluated_value) = Result(AbsOutcome)

\* An App applied an Int inside a TypeApp, and the TypeApp failed with it.
C9_Witness ==
    /\ evaluated_value.run
    /\ ast.tag = "TypeApp"
    /\ ast.abs.tag = "App"
    /\ NotCallable(AbsOutcome)
    /\ AbsOutcome.what.tag = "Int"
    /\ NotCallable(evaluated_value)

---------------------------------------------------------------------------
(* Properties of infer.                                                    *)

\* infer's outcome on a call of infer_calls(ast, type_context): the recorded
\* one for the ast itself.
Synthesized(expr, context) ==
    IF expr = ast /\ context = type_context
    THEN infered_type
    ELSE infer(expr, context)

\* tests::it_evals_identity_function's ast, applied to Int(4)
StrIdentityApplied == EApp(EInt(4), EAbs("x", TStr, EVar("x")))

\* A function over Forall{b, Int} applied to a term of type Forall{a, Int}.
RenamedForallApplied ==
    EApp(ETypeAbs("a", EInt(4)), EAbs("x", TForall("b", TInt), EVar("x")))

\* C5: for an App whose subterms both synthesize a type, infer returns the
\* body B exactly when abs's type is Closure{P, B} with P equal to arg's
\* type, fails with a mismatch when P differs (as for Abs{x: Str}.x applied
\* to Int(4), and for Forall types differing only in the bound name), and
\* fails with not-a-function when abs's type is Int, Str, Var or Forall.
C5_Application ==
    infered_type.run =>
        /\ \A call \in infer_calls(ast, type_context) :
             LET expr == call[1]
                 context == call[2]
             IN  expr.tag = "App" =>
                 LET arg == infer(expr.arg, context)
                     abs == infer(expr.abs, context)
                     res == Synthesized(expr, context)
                 IN  (arg.ok /\ abs.ok) =>
                     /\ res.ok <=> (/\ abs.type.tag = "Closure"
                                    /\ abs.type.param = arg.type)
                     /\ res.ok => res.type = abs.type.body
                     /\ (abs.type.tag = "Closure" /\ abs.type.param # arg.type) =>
                          /\ res = TypePanic("expecting type",
                                             <<abs.type.param, arg.type>>)
                     /\ abs.type.tag \in {"Int", "Str", "Var", "Forall"} =>
                          /\ res = TypePanic("cannot be used as a closure", abs.type)
        /\ ast = StrIdentityApplied =>
             infered_type = TypePanic("expecting type", <<TStr, TInt>>)
        /\ ast = RenamedForallApplied =>
             infered_type = TypePanic("expecting type",
                                      <<TForall("b", TInt), TForall("a", TInt)>>)

\* infer refused an App whose parameter and argument types are Forall types
\* differing only in the bound variable's name.
C5_Witness ==
    /\ infered_type.run
    /\ ast = RenamedForallApplied
    /\ infer(ast.arg, type_context) = Returned(TForall("a", TInt))
    /\ infer(ast.abs, type_context).type.param = TForall("b", TInt)
    /\ ~infered_type.ok
    /\ infered_type.panic = "expecting type"

\* C6: infer of TypeAbs{a, e} is Forall{a, infer(e)} under the same context;
\* infer of TypeApp{f, A} is replace_type(B, p, A) when infer(f) is
\* Forall{p, B} and fails with not-generic when it is Int, Str, Var or a
\* Closure; the generic identity has type Forall{a, Closure{Var(a), Var(a)}}
\* and, type-applied at A, type Closure{A, A}.
C6_Generics ==
    infered_type.run =>
        /\ \A call \in infer_calls(ast, type_context) :
             LET expr == call[1]
                 context == call[2]
                 res == Synthesized(expr, context)
             IN  /\ expr.tag = "TypeAbs" =>
                      LET body == infer(expr.body, context)
                      IN  res = IF body.ok
                                THEN Returned(TForall(expr.param, body.type))
                                ELSE body
                 /\ expr.tag = "TypeApp" =>
                      LET abs == infer(expr.abs, context)
                      IN  abs.ok =>
                          IF abs.type.tag = "Forall"
                          THEN res = Returned(replace_type(abs.type.body,
                                                           abs.type.param, expr.arg))
                          ELSE /\ abs.type.tag \in {"Int", "Str", "Var", "Closure"}
                               /\ res = TypePanic("cannot apply type",
                                                  <<expr.abs, abs.type>>)
        /\ infer(PolyIdentity, type_context)
               = Returned(TForall("a", TClosure(TVar("a"), TVar("a"))))
        /\ infered_type.ok =>
             infer(ETypeApp(infered_type.type, PolyIdentity), type_context)
                 = Returned(TClosure(infered_type.type, infered_type.type))

\* The generic identity was instantiated at Int and got type Int -> Int.
C6_Witness ==
    /\ infered_type.run
    /\ ast = ETypeApp(TInt, PolyIdentity)
    /\ infered_type = Returned(TClosure(TInt, TInt))

---------------------------------------------------------------------------
(* Termination of eval.                                                    *)

\* eval returned a value or raised one of its panics: the recursion ended.
Terminated(outcome) ==
    \/ outcome.ok
    \/ outcome.panic \in {"unbound variable", "explicit panic",
                          "invalid type application", "primitive misuse"}

\* No App occurs in the term.
RECURSIVE AppFree(_)
AppFree(expr) ==
    CASE expr.tag \in {"Int", "Var"} -> TRUE
      [] expr.tag \in {"Abs", "TypeAbs"} -> AppFree(expr.body)
      [] expr.tag = "TypeApp" -> AppFree(expr.abs)
      [] expr.tag = "App" -> FALSE

\* No App occurs in a body held by the context, at any nesting.
RECURSIVE AppFreeContext(_)
AppFreeContext(context) ==
    \A k \in DOMAIN context :
        LET value == context[k]
        IN  value.tag \in {"Closure", "Forall"} =>
                AppFree(value.body) /\ AppFreeContext(value.context)

\* No Native value is held by the context, at any nesting.
RECURSIVE NativeFree(_)
NativeFree(context) ==
    \A k \in DOMAIN context :
        LET value == context[k]
        IN  /\ value.tag # "Native"
            /\ value.tag \in {"Closure", "Forall"} => NativeFree(value.context)

===========================================================================
